---- MODULE Spec2Model ----
(***************************************************************************)
(* A state-machine model of the fastRTC voice agent: the bounded chat      *)
(* history (src/src/chat_history.py), the LLM fallback chain               *)
(* (src/src/llm_service.py), the agent turn (src/src/agent.py) and the     *)
(* speech service with its lazily initialised providers                    *)
(* (src/src/speech/speech_service.py).                                     *)
(***************************************************************************)
EXTENDS Integers, Sequences, FiniteSets, TLC

VARIABLES
    \* ---- ChatHistory (chat_history.py) ----
    system_prompt,        \* ChatHistory.system_prompt
    max_history_pairs,    \* ChatHistory.max_history_pairs (MAX_HISTORY_MESSAGES)
    messages,             \* ChatHistory._messages
    committed,            \* the (user, assistant) pairs given to add_exchange since
                          \* the construction or the last clear
    clears,               \* the clear() calls: what each returned and dropped
    \* ---- LLMService configuration (llm_service.py) ----
    llm_mode,             \* LLMService.llm_mode (LLM_MODE)
    llm_provider,         \* LLMService.llm_provider (LLM_PROVIDER)
    temperature,          \* LLMService.temperature (LLM_TEMPERATURE)
    model,                \* LLMService.model
    fallback_models,      \* LLMService.fallback_models
    \* ---- Agent.invoke / LLMService.generate_response, one frame per caller ----
    turn,                 \* caller -> frame of its Agent.invoke call
    invokes,              \* number of Agent.invoke calls started
    \* ---- SpeechService (speech/speech_service.py) ----
    tts_provider,         \* SpeechService.tts_provider
    stt_provider,         \* SpeechService.stt_provider
    initialized,          \* provider instance -> its initialized attribute
    initCalls,            \* provider instance -> number of initialize() invocations
    initOk,               \* provider instance -> number of initialize() that returned
    initFailed,           \* some initialize() has raised
    flagHist,             \* provider instance -> the successive values of initialized
    uses,                 \* the provider invocations made through the service
    sp,                   \* caller -> frame of its SpeechService call
    ops,                  \* number of SpeechService calls started
    ctor_tts_name,        \* the tts_provider argument of SpeechService.__init__
    ctor_stt_name,        \* the stt_provider argument of SpeechService.__init__
    \* ---- response (main.py), one frame per session ----
    resp                  \* session -> frame of its current call of response

histVars   == <<system_prompt, max_history_pairs, messages, committed, clears>>
llmVars    == <<llm_mode, llm_provider, temperature, model, fallback_models>>
agentVars  == <<turn, invokes>>
ctorVars   == <<ctor_tts_name, ctor_stt_name>>
speechVars == <<tts_provider, stt_provider, initialized, initCalls, initOk,
                initFailed, flagHist, uses, sp, ops, ctorVars>>
respVars   == <<resp>>
vars       == <<histVars, llmVars, agentVars, speechVars, respVars>>

----------------------------------------------------------------------------
(* Bounds of the model *)

MaxP == 2
MaxCommits == 3
MaxClears == 1

Prompts == {"You are Fernando.", "You are a chef."}
UserTexts == {"Ciao", "Come stai?"}
Replies == {"Buonasera!", "Bene."}

Min(a, b) == IF a < b THEN a ELSE b
Max(a, b) == IF a > b THEN a ELSE b

----------------------------------------------------------------------------
(* ChatHistory *)

SystemMessage(c)    == [role |-> "system", content |-> c]
UserMessage(c)      == [role |-> "user", content |-> c]
AssistantMessage(c) == [role |-> "assistant", content |-> c]

\* Python's s[i:] for an integer i (a negative i counts from the end, -0 is 0).
PySliceFrom(s, i) ==
    LET start == IF i < 0 THEN Max(Len(s) + i, 0) ELSE Min(i, Len(s))
    IN  SubSeq(s, start + 1, Len(s))

\* "not self._messages or self._messages[0].get('role') != 'system'"
SystemMissing(msgs) == msgs = <<>> \/ msgs[1].role # "system"

\* ChatHistory.__init__: the message list of a fresh history.
FreshMessages(prompt) == <<SystemMessage(prompt)>>

\* Mutants of add_exchange: no truncation; truncation that keeps the oldest.
add_exchange_NoCut(msgs, prompt, pairs, u, a) ==
    LET m0 == IF SystemMissing(msgs) THEN <<SystemMessage(prompt)>> ELSE msgs
    IN  Append(Append(m0, UserMessage(u)), AssistantMessage(a))

add_exchange_KeepOldest(msgs, prompt, pairs, u, a) ==
    LET m0 == IF SystemMissing(msgs) THEN <<SystemMessage(prompt)>> ELSE msgs
        m2 == Append(Append(m0, UserMessage(u)), AssistantMessage(a))
        max_messages == (pairs * 2) + 1
    IN  IF Len(m2) > max_messages THEN SubSeq(m2, 1, max_messages) ELSE m2

\* Mutant of add_exchange: the assistant message is not appended.
add_exchange_UserOnly(msgs, prompt, pairs, u, a) ==
    LET m0 == IF SystemMissing(msgs) THEN <<SystemMessage(prompt)>> ELSE msgs
        m1 == Append(m0, UserMessage(u))
        max_messages == (pairs * 2) + 1
    IN  IF Len(m1) > max_messages
        THEN <<m1[1]>> \o PySliceFrom(m1, -(max_messages - 1))
        ELSE m1

\* ChatHistory.add_exchange: the new value of _messages.
add_exchange(msgs, prompt, pairs, u, a) ==
    LET m0 == IF SystemMissing(msgs) THEN <<SystemMessage(prompt)>> ELSE msgs
        m1 == Append(m0, UserMessage(u))
        m2 == Append(m1, AssistantMessage(a))
        max_messages == (pairs * 2) + 1
    IN  IF Len(m2) > max_messages
        THEN <<m2[1]>> \o PySliceFrom(m2, -(max_messages - 1))
        ELSE m2

\* The statements of add_exchange one by one: the system-message repair and the
\* append of the user message, the append of the assistant message, the
\* truncation.
add_exchange_user(msgs, prompt, u) ==
    LET m0 == IF SystemMissing(msgs) THEN <<SystemMessage(prompt)>> ELSE msgs
    IN  Append(m0, UserMessage(u))

add_exchange_assistant(msgs, a) == Append(msgs, AssistantMessage(a))

add_exchange_cut(msgs, pairs) ==
    LET max_messages == (pairs * 2) + 1
    IN  IF Len(msgs) > max_messages
        THEN <<msgs[1]>> \o PySliceFrom(msgs, -(max_messages - 1))
        ELSE msgs

\* Mutant of get_messages: the returned list holds the system message only.
get_messages_SystemOnly(msgs, prompt) ==
    LET m0 == IF SystemMissing(msgs) THEN <<SystemMessage(prompt)>> \o msgs ELSE msgs
    IN  <<m0, <<SystemMessage(prompt)>> >>

\* ChatHistory.get_messages: <<the new value of _messages, the returned copy>>.
get_messages(msgs, prompt) ==
    LET m0 == IF SystemMissing(msgs) THEN <<SystemMessage(prompt)>> \o msgs ELSE msgs
    IN  <<m0, m0>>

\* Mutant of clear: the list is emptied, the system message with it.
clear_Empty(prompt) == [messages |-> <<>>, result |-> TRUE]

\* ChatHistory.clear (Agent.clear_history returns what it returns): the new
\* value of _messages and the returned value.
clear(prompt) == [messages |-> <<SystemMessage(prompt)>>, result |-> TRUE]

\* ChatHistory.current_length
current_length == Len(messages)

----------------------------------------------------------------------------
(* LLMService *)

MaxFallbacks == 2
MaxTurns == 2

PrimaryModels == {"gpt-3.5-turbo"}

\* The values of LLM_MODE and LLM_PROVIDER.
LLMModes == {"local", "cloud"}
LLMProviders == {"openai", "ollama", "gemini", "openrouter", "groq"}

\* A key that a dictionary does not hold, or holds with the value None.
Unset == "<unset>"

\* self.model_mapping, with the defaults of the model variables.
model_mapping ==
    [p \in LLMProviders |->
        CASE p = "openai" -> "gpt-3.5-turbo"
          [] p = "ollama" -> "llama3.1:8b"
          [] p = "gemini" -> "gemini-1.5-flash"
          [] p = "openrouter" -> "qwen/qwq-32b:free"
          [] p = "groq" -> "llama-3.1-8b-instant"]

\* self.api_base_mapping, with the defaults of the api base variables.
api_base_mapping ==
    [p \in LLMProviders |->
        CASE p = "ollama" -> "http://localhost:11434"
          [] p = "openrouter" -> "https://openrouter.ai/api/v1"
          [] OTHER -> Unset]

\* The api_key entry generate_response adds for a provider.
api_key_for ==
    [p \in LLMProviders |-> IF p = "openrouter" THEN "OPENROUTER_API_KEY" ELSE Unset]

\* LLMService._get_model_name
get_model_name(mode, provider_name) ==
    LET provider == IF mode = "local" THEN "ollama" ELSE provider_name
        m == model_mapping[provider]
    IN  CASE provider = "ollama" -> "ollama/" \o m
          [] provider = "openrouter" -> "openrouter/" \o m
          [] provider = "groq" -> "groq/" \o m
          [] OTHER -> m

\* generate_response: the keyword arguments of the call on the primary model.
primary_kwargs(provider_name, self_model, self_temperature, msgs) ==
    [model |-> self_model, messages |-> msgs, temperature |-> self_temperature,
     api_base |-> api_base_mapping[provider_name],
     api_key |-> api_key_for[provider_name]]

\* Mutant of fallback_assign: the fallback model is stored in self.model.
fallback_assign_Sticky(kwargs, self_model, fallback_model) ==
    [kwargs |-> [kwargs EXCEPT !.model = fallback_model], model |-> fallback_model]

\* generate_response: 'kwargs["model"] = fallback_model'; the new kwargs and
\* the value of self.model.
fallback_assign(kwargs, self_model, fallback_model) ==
    [kwargs |-> [kwargs EXCEPT !.model = fallback_model], model |-> self_model]

NoKwargs ==
    [model |-> "", messages |-> <<>>, temperature |-> "", api_base |-> Unset,
     api_key |-> Unset]

\* What is recorded of one litellm.completion call.
Attempt(kwargs, ok, text) ==
    [model |-> kwargs.model, messages |-> kwargs.messages,
     temperature |-> kwargs.temperature, api_base |-> kwargs.api_base,
     api_key |-> kwargs.api_key, ok |-> ok, text |-> IF ok THEN text ELSE ""]
\* The entries LLM_FALLBACKS.split(",") can hold: blank ones and model names.
FallbackEntries == {"", " ", "groq/llama-3.1-8b-instant", "ollama/llama3.1:8b"}

\* split(",") never returns an empty list: an unset LLM_FALLBACKS gives [""].
FallbackLists ==
    UNION {[1..n -> FallbackEntries] : n \in 1..MaxFallbacks}

\* The two apology strings of the source.
LLMApology ==
    "mi dispiace, ma ho un problema di connessione. potresti ripetere la tua domanda?"
AgentApology ==
    "Mi dispiace, ma ho un problema di connessione. Potresti ripetere la tua domanda?"

\* Mutant of IsBlank: only the empty entry is skipped.
IsBlank_EmptyOnly(entry) == entry = ""

\* "not fallback_model.strip()"
IsBlank(entry) == entry \in {"", " "}

\* Mutant of fallback_at: the fallbacks walked from the last to the first.
fallback_at_Reversed(fallbacks, idx) == fallbacks[Len(fallbacks) + 1 - idx]

\* "for fallback_model in self.fallback_models": the idx-th entry visited.
fallback_at(fallbacks, idx) == fallbacks[idx]

\* Mutant of all_failed: the failure of every attempt raised to the caller.
all_failed_Raises == [raised |-> TRUE, text |-> ""]

\* The outcome of generate_response once every attempt has failed.
all_failed == [raised |-> FALSE, text |-> LLMApology]

\* The outcome of generate_response when an attempt succeeded with text.
attempt_succeeded(text) == [raised |-> FALSE, text |-> text]

NoGen == [raised |-> FALSE, text |-> ""]

----------------------------------------------------------------------------
(* Agent.invoke *)

\* The callers of the agent and of the speech service; the sequential
\* specifications run caller 1 alone.
Callers == {1, 2}

IdleTurn ==
    [pc |-> "idle", input_text |-> "", context |-> <<>>, kwargs_model |-> "",
     kwargs |-> NoKwargs, prev_model |-> "", idx |-> 0, calls |-> <<>>, gen |-> NoGen, assistant_response |-> "",
     commits |-> <<>>, result |-> <<>>]

\* Mutant of invoke_exchanges: the exchange of a successful generation is lost.
invoke_exchanges_Dropped(gen, input_text) ==
    IF gen.raised
    THEN [assistant_response |-> AgentApology,
          exchanges |-> << <<input_text, AgentApology>> >>]
    ELSE [assistant_response |-> gen.text, exchanges |-> <<>>]

\* Agent.invoke after generate_response: the assistant text and the exchanges
\* given to add_exchange, on the try path and in the exception handler.
invoke_exchanges(gen, input_text) ==
    IF gen.raised
    THEN [assistant_response |-> AgentApology,
          exchanges |-> << <<input_text, AgentApology>> >>]
    ELSE [assistant_response |-> gen.text,
          exchanges |-> << <<input_text, gen.text>> >>]

\* Mutant of invoke_pending: the user message is appended to the history's own
\* list instead of a copy.
invoke_pending_Aliased(gm, text) ==
    [history |-> Append(gm[1], UserMessage(text)),
     context |-> Append(gm[2], UserMessage(text))]

\* Agent.invoke before generate_response: gm is what get_messages did, <<the
\* history's list, the returned list>>; the user message is appended to the
\* returned list, which becomes the context of the LLM call.
invoke_pending(gm, text) ==
    [history |-> gm[1], context |-> Append(gm[2], UserMessage(text))]

RECURSIVE add_exchanges(_, _, _, _)
\* add_exchange applied to each exchange of a list, in order.
add_exchanges(msgs, prompt, pairs, exchanges) ==
    IF exchanges = <<>> THEN msgs
    ELSE add_exchanges(add_exchange(msgs, prompt, pairs, exchanges[1][1], exchanges[1][2]),
                       prompt, pairs, Tail(exchanges))

\* Agent.invoke up to the call of generate_response: get_messages, then the
\* pending user message appended to the copy.
invoke_call(t, text) ==
    /\ turn[t].pc \in {"idle", "returned"}
    /\ invokes < MaxTurns
    /\ LET pend == invoke_pending(get_messages(messages, system_prompt), text)
       IN  /\ messages' = pend.history
           /\ turn' = [turn EXCEPT ![t] =
                  [IdleTurn EXCEPT !.pc = "primary", !.input_text = text,
                                   !.context = pend.context,
                                   !.prev_model = turn[t].kwargs_model]]
    /\ invokes' = invokes + 1
    /\ UNCHANGED <<system_prompt, max_history_pairs, clears, committed, llmVars, speechVars>>

\* Agent.invoke called on its own, outside response.
Invoke_Start(t, text) == invoke_call(t, text) /\ UNCHANGED respVars

\* generate_response: the attempt on the primary model.
Gen_Primary(t) ==
    /\ turn[t].pc = "primary"
    /\ \E ok \in BOOLEAN, text \in Replies :
         /\ ok \/ text = CHOOSE r \in Replies : TRUE
         /\ LET kw == primary_kwargs(llm_provider, model, temperature, turn[t].context)
                call == Attempt(kw, ok, text)
                f == [turn[t] EXCEPT !.kwargs_model = kw.model, !.kwargs = kw,
                                     !.calls = Append(@, call)]
            IN  turn' = [turn EXCEPT ![t] =
                   IF ok
                   THEN [f EXCEPT !.gen = attempt_succeeded(text), !.pc = "generated"]
                   ELSE [f EXCEPT !.idx = 1, !.pc = "fallback"]]
    /\ UNCHANGED <<histVars, llmVars, invokes, speechVars>>
    /\ UNCHANGED respVars

\* generate_response: one iteration of the loop over the fallback models, or
\* its end.
Gen_Fallback(t) ==
    /\ turn[t].pc = "fallback"
    /\ LET f == turn[t] IN
       \/ /\ f.idx > Len(fallback_models)
          /\ turn' = [turn EXCEPT ![t] = [f EXCEPT !.gen = all_failed, !.pc = "generated"]]
          /\ UNCHANGED model
       \/ /\ f.idx <= Len(fallback_models)
          /\ IsBlank(fallback_at(fallback_models, f.idx))
          /\ turn' = [turn EXCEPT ![t] = [f EXCEPT !.idx = @ + 1]]
          /\ UNCHANGED model
       \/ /\ f.idx <= Len(fallback_models)
          /\ ~IsBlank(fallback_at(fallback_models, f.idx))
          /\ \E ok \in BOOLEAN, text \in Replies :
               /\ ok \/ text = CHOOSE r \in Replies : TRUE
               /\ LET m == fallback_at(fallback_models, f.idx)
                      a == fallback_assign(f.kwargs, model, m)
                      call == Attempt(a.kwargs, ok, text)
                      g == [f EXCEPT !.kwargs_model = a.kwargs.model,
                                     !.kwargs = a.kwargs, !.calls = Append(@, call)]
                  IN  /\ turn' = [turn EXCEPT ![t] =
                            IF ok
                            THEN [g EXCEPT !.gen = attempt_succeeded(text),
                                           !.pc = "generated"]
                            ELSE [g EXCEPT !.idx = @ + 1]]
                      /\ model' = a.model
    /\ UNCHANGED <<histVars, llm_mode, llm_provider, temperature, fallback_models,
                   invokes, speechVars>>
    /\ UNCHANGED respVars

\* Agent.invoke after generate_response: add_exchange on the try path or in the
\* exception handler.
invoke_commit(t) ==
    /\ turn[t].pc = "generated"
    /\ LET r == invoke_exchanges(turn[t].gen, turn[t].input_text)
       IN  /\ messages' = add_exchanges(messages, system_prompt, max_history_pairs,
                                        r.exchanges)
           /\ committed' = committed \o r.exchanges
           /\ turn' = [turn EXCEPT ![t] =
                  [@ EXCEPT !.assistant_response = r.assistant_response,
                            !.commits = @ \o r.exchanges, !.pc = "return"]]
    /\ UNCHANGED <<system_prompt, max_history_pairs, clears, llmVars, invokes, speechVars>>

\* The commit of an Agent.invoke called on its own.
Invoke_Commit(t) == invoke_commit(t) /\ UNCHANGED respVars

\* Agent.invoke: the returned dictionary.
Invoke_Return(t) ==
    /\ turn[t].pc = "return"
    /\ LET f == turn[t]
       IN  turn' = [turn EXCEPT ![t] =
              [f EXCEPT !.result = <<UserMessage(f.input_text),
                                     AssistantMessage(f.assistant_response)>>,
                        !.pc = "returned"]]
    /\ UNCHANGED <<histVars, llmVars, invokes, speechVars>>
    /\ UNCHANGED respVars

----------------------------------------------------------------------------
(* Agent.invoke called by concurrent callers: add_exchange statement by
   statement, as nothing in Agent or ChatHistory holds a lock *)

\* Agent.invoke calls add_exchange: the repair and "append(user)".
addex_user(t) ==
    /\ turn[t].pc = "generated"
    /\ LET r == invoke_exchanges(turn[t].gen, turn[t].input_text)
       IN  /\ messages' = add_exchange_user(messages, system_prompt, turn[t].input_text)
           /\ committed' = committed \o r.exchanges
           /\ turn' = [turn EXCEPT ![t] =
                  [@ EXCEPT !.assistant_response = r.assistant_response,
                            !.commits = @ \o r.exchanges, !.pc = "add_assistant"]]
    /\ UNCHANGED <<system_prompt, max_history_pairs, clears, llmVars, invokes, speechVars>>

\* add_exchange: "append(assistant)".
addex_assistant(t) ==
    /\ turn[t].pc = "add_assistant"
    /\ messages' = add_exchange_assistant(messages, turn[t].assistant_response)
    /\ turn' = [turn EXCEPT ![t] = [@ EXCEPT !.pc = "cut"]]
    /\ UNCHANGED <<system_prompt, max_history_pairs, clears, committed, llmVars, invokes,
                   speechVars>>

\* add_exchange: the truncation to max_history_pairs * 2 + 1 messages.
addex_cut(t) ==
    /\ turn[t].pc = "cut"
    /\ messages' = add_exchange_cut(messages, max_history_pairs)
    /\ turn' = [turn EXCEPT ![t] = [@ EXCEPT !.pc = "return"]]
    /\ UNCHANGED <<system_prompt, max_history_pairs, clears, committed, llmVars, invokes,
                   speechVars>>

\* The statements of add_exchange in an Agent.invoke called on its own.
AddEx_User(t)      == addex_user(t) /\ UNCHANGED respVars
AddEx_Assistant(t) == addex_assistant(t) /\ UNCHANGED respVars
AddEx_Cut(t)       == addex_cut(t) /\ UNCHANGED respVars

----------------------------------------------------------------------------
(* SpeechService *)

MaxOps == 3
\* The chunks of one synthesized text.
MaxChunks == 2

\* The keys of SpeechService.tts_providers and SpeechService.stt_providers.
TTS_Registered == {"elevenlabs", "kokoro"}
STT_Registered == {"elevenlabs", "groq", "openai"}

\* The provider instances the service owns.
Providers == ({"tts"} \X TTS_Registered) \cup ({"stt"} \X STT_Registered)

\* Provider names a caller may pass.
ProviderNames == {"elevenlabs", "kokoro", "Kokoro", "groq", "openai", "nonexistent"}
\* The text argument when it is None.
NoneText == "<None>"
Texts == {"", NoneText, "Buonasera!"}

\* Audio arguments: None, a tuple whose length is not 2, (rate, samples) with a
\* one-dimensional sample array, (rate, samples) with an array of shape (1, 0),
\* (rate, samples) with an array of shape (1, n).
AllAudios == {"none", "short", "flat", "empty", "speech"}
Audios == {"none", "speech"}

\* str.lower() on the names above.
Lower(name) == IF name = "Kokoro" THEN "kokoro" ELSE name

\* The values a SpeechService call hands back.
NoneValue == "None"
Raised == "raise"

\* Mutant of is_tts_registered: every name accepted.
is_tts_registered_Any(provider_name) == TRUE

\* "provider_name.lower() not in self.tts_providers", negated.
is_tts_registered(provider_name) == Lower(provider_name) \in TTS_Registered

\* "provider_name.lower() not in self.stt_providers", negated.
is_stt_registered(provider_name) == Lower(provider_name) \in STT_Registered

\* The value set_tts_provider / set_stt_provider return for an unknown name.
rejected_selection == NoneValue

\* The value set_tts_provider / set_stt_provider return for a known name.
accepted_selection == NoneValue

\* Mutants of needs_init: never initialise; initialise on every call.
needs_init_Never(flag) == FALSE
needs_init_Always(flag) == TRUE

\* "not hasattr(provider, 'initialized') or not provider.initialized"; every
\* provider class sets the attribute in its __init__.
needs_init(flag) == ~flag

\* Mutant of ctor_tts_provider: the lowered name is kept whatever it is.
ctor_tts_provider_NoFallback(name) == Lower(name)

\* Mutant of selected_tts: the assignment is left for after preload_tts.
selected_tts_Deferred(current, name) == current

\* set_tts_provider: "self.tts_provider = provider_name.lower()", before the
\* call of preload_tts.
selected_tts(current, name) == Lower(name)

\* Mutant of looked_up_tts: the provider that was active when text_to_speech was
\* called.
looked_up_tts_Eager(at_call, now) == at_call

\* "self.tts_providers[self.tts_provider]": the name is read when the statement
\* runs, which in the generator text_to_speech is at its first consumption.
looked_up_tts(at_call, now) == now

\* "yield from provider.text_to_speech(...)": every chunk comes from the
\* provider object bound by the lookup, whatever provider is active by then.
chunk_source(bound, active) == bound

\* Mutant of initialize_flag: the attribute is set before the step that fails.
initialize_flag_Early(flag, ok) == TRUE

\* A provider's initialize(): "self.initialized = True" is its last statement,
\* not reached when it raises.
initialize_flag(flag, ok) == IF ok THEN TRUE ELSE flag

\* Mutant of is_empty_text: no text counts as empty.
is_empty_text_Never(text) == FALSE

\* "not text"
is_empty_text(text) == text \in {"", NoneText}

\* "not audio or len(audio) != 2"
is_invalid_audio(audio) == audio \in {"none", "short"}

\* One consumption of a TTS provider's text_to_speech after delivered chunks:
\* the next chunk, the end of the sequence, or the backend's exception, logged
\* and raised again. An empty text ends the sequence at once. ElevenLabsTTS
\* has one yield: its sequence is exactly one chunk long. KokoroTTS yields in
\* a loop over the backend's results, skipping those without audio: its
\* sequence has any number of chunks, none included.
provider_text_to_speech(name, text, delivered) ==
    IF is_empty_text(text) THEN {"end"}
    ELSE IF name = "elevenlabs"
         THEN (IF delivered = 0 THEN {"chunk"} ELSE {"end"}) \cup {Raised}
         ELSE (IF delivered < MaxChunks THEN {"chunk"} ELSE {}) \cup {"end", Raised}

\* A TTS provider's sequence is closed while suspended at its yield.
\* ElevenLabsTTS is suspended inside try/finally: its finally removes the
\* temporary file, and a failure of the removal is logged and raised again.
\* KokoroTTS has no cleanup, and its "except Exception" does not catch the
\* GeneratorExit.
provider_close(name) ==
    IF name = "elevenlabs" THEN {"closed", Raised} ELSE {"closed"}

\* speech_to_text: the keyword arguments added when the active provider is
\* found to be elevenlabs by the first test ...
stt_kwargs_first(active) == IF active = "elevenlabs" THEN "diarize" ELSE ""

\* ... and, when it was not, those added by the second test, for groq and
\* openai.
stt_kwargs_second(active) == IF active \in {"groq", "openai"} THEN "prompt" ELSE ""

\* The call of the looked-up provider with these keyword arguments:
\* ElevenLabsSTT.speech_to_text has no prompt, temperature or response_format
\* parameter and no **kwargs, GroqSTT and OpenAISTT take **kwargs.
accepts_kwargs(name, kwargs) == ~(name = "elevenlabs" /\ kwargs = "prompt")

\* Mutant of provider_speech_to_text: the except clause raises again, as the
\* TTS providers do.
provider_speech_to_text_Raising(audio) ==
    IF audio = "flat" THEN {Raised} ELSE {"text", Raised}

\* An STT provider's speech_to_text: "audio[1].shape[1]" is read for the debug
\* line before the try block and raises IndexError for a one-dimensional
\* array; inside the try block the backend's text is returned, "" when the
\* backend fails. An array with zero samples takes the path of any other
\* two-dimensional array.
provider_speech_to_text(audio) ==
    IF audio = "flat" THEN {Raised}
    ELSE {"text", ""}

\* SpeechService.__init__: the active provider for a requested name.
ctor_tts_provider(name) ==
    IF Lower(name) \in TTS_Registered THEN Lower(name) ELSE "elevenlabs"
ctor_stt_provider(name) ==
    IF Lower(name) \in STT_Registered THEN Lower(name) ELSE "elevenlabs"

Snapshot ==
    [tts_provider |-> tts_provider, stt_provider |-> stt_provider,
     initialized |-> initialized, initCalls |-> initCalls]

\* A caller between two calls. pre: the service when the call was made;
\* at_lookup: the active provider's name when the call looked it up; kwargs:
\* the provider-specific keyword arguments speech_to_text has added; chunks:
\* the provider that produced each chunk consumed so far.
IdleSp ==
    [pc |-> "idle", op |-> "", arg |-> "", provider |-> <<>>, result |-> "",
     raisedBy |-> "", pre |-> <<>>, at_lookup |-> "", kwargs |-> "",
     chunks |-> <<>>]

NewSp(op, arg) == [IdleSp EXCEPT !.op = op, !.arg = arg, !.pre = Snapshot]

CanCall(t) == sp[t].pc \in {"idle", "returned"} /\ ops < MaxOps

Return(f, value) == [f EXCEPT !.pc = "returned", !.result = value]

\* The call ends with an exception raised by the lookup of the provider, by
\* its initialize() or by its text_to_speech / speech_to_text.
Raise(f, by) == [f EXCEPT !.pc = "returned", !.result = Raised, !.raisedBy = by]

\* The end of the call with an outcome of the provider's method.
Outcome(f, r) == IF r = Raised THEN Raise(f, "use") ELSE Return(f, r)

\* The value of initialized[p] recorded when it changes.
Recorded(hist, p, value) ==
    IF hist[p][Len(hist[p])] = value THEN hist
    ELSE [hist EXCEPT ![p] = Append(@, value)]

\* SpeechService.preload_tts is called.
Call_preload_tts(t) ==
    /\ CanCall(t)
    /\ sp' = [sp EXCEPT ![t] = [NewSp("preload_tts", "") EXCEPT !.pc = "get"]]
    /\ ops' = ops + 1
    /\ UNCHANGED <<tts_provider, stt_provider, initialized, initCalls, initOk,
                   initFailed, flagHist, uses>>
    /\ UNCHANGED <<histVars, llmVars, agentVars, ctorVars>>
    /\ UNCHANGED respVars

\* SpeechService.set_tts_provider up to its call of preload_tts.
Call_set_tts_provider(t, name) ==
    /\ CanCall(t)
    /\ IF ~is_tts_registered(name)
       THEN /\ sp' = [sp EXCEPT ![t] =
                   Return(NewSp("set_tts_provider", name), rejected_selection)]
            /\ UNCHANGED tts_provider
       ELSE /\ tts_provider' = selected_tts(tts_provider, name)
            /\ sp' = [sp EXCEPT ![t] =
                   [NewSp("set_tts_provider", name) EXCEPT !.pc = "get"]]
    /\ ops' = ops + 1
    /\ UNCHANGED <<stt_provider, initialized, initCalls, initOk, initFailed,
                   flagHist, uses>>
    /\ UNCHANGED <<histVars, llmVars, agentVars, ctorVars>>
    /\ UNCHANGED respVars

\* SpeechService.set_stt_provider.
Call_set_stt_provider(t, name) ==
    /\ CanCall(t)
    /\ IF ~is_stt_registered(name)
       THEN /\ sp' = [sp EXCEPT ![t] =
                   Return(NewSp("set_stt_provider", name), rejected_selection)]
            /\ UNCHANGED stt_provider
       ELSE /\ stt_provider' = Lower(name)
            /\ sp' = [sp EXCEPT ![t] =
                   Return(NewSp("set_stt_provider", name), accepted_selection)]
    /\ ops' = ops + 1
    /\ UNCHANGED <<tts_provider, initialized, initCalls, initOk, initFailed,
                   flagHist, uses>>
    /\ UNCHANGED <<histVars, llmVars, agentVars, ctorVars>>
    /\ UNCHANGED respVars

\* SpeechService.text_to_speech up to the lookup of the active provider.
text_to_speech_call(t, text) ==
    /\ CanCall(t)
    /\ sp' = [sp EXCEPT ![t] =
           IF is_empty_text(text)
           THEN Return(NewSp("text_to_speech", text), "no chunks")
           ELSE [NewSp("text_to_speech", text) EXCEPT !.pc = "get"]]
    /\ ops' = ops + 1
    /\ UNCHANGED <<tts_provider, stt_provider, initialized, initCalls, initOk,
                   initFailed, flagHist, uses>>
    /\ UNCHANGED <<histVars, llmVars, agentVars, ctorVars>>

\* SpeechService.text_to_speech called on its own, outside response.
Call_text_to_speech(t, text) == text_to_speech_call(t, text) /\ UNCHANGED respVars

\* SpeechService.speech_to_text up to the lookup of the active provider.
speech_to_text_call(t, audio) ==
    /\ CanCall(t)
    /\ sp' = [sp EXCEPT ![t] =
           IF is_invalid_audio(audio)
           THEN Return(NewSp("speech_to_text", audio), "")
           ELSE [NewSp("speech_to_text", audio) EXCEPT !.pc = "get"]]
    /\ ops' = ops + 1
    /\ UNCHANGED <<tts_provider, stt_provider, initialized, initCalls, initOk,
                   initFailed, flagHist, uses>>
    /\ UNCHANGED <<histVars, llmVars, agentVars, ctorVars>>

\* SpeechService.speech_to_text called on its own, outside response.
Call_speech_to_text(t, audio) == speech_to_text_call(t, audio) /\ UNCHANGED respVars

\* "provider = self.tts_providers[self.tts_provider]" (preload_tts,
\* text_to_speech) and "provider = self.stt_providers[self.stt_provider]"
\* (speech_to_text); a missing key raises KeyError.
Step_GetProvider(t) ==
    /\ sp[t].pc = "get"
    /\ LET p == IF sp[t].op = "speech_to_text" THEN <<"stt", stt_provider>>
                ELSE <<"tts", looked_up_tts(sp[t].pre.tts_provider, tts_provider)>>
           f == [sp[t] EXCEPT !.at_lookup = IF sp[t].op = "speech_to_text"
                                            THEN stt_provider ELSE tts_provider]
       IN  sp' = [sp EXCEPT ![t] =
              IF p \in Providers
              THEN [f EXCEPT !.provider = p, !.pc = "check"]
              ELSE Raise(f, "lookup")]
    /\ UNCHANGED <<tts_provider, stt_provider, initialized, initCalls, initOk,
                   initFailed, flagHist, uses, ops>>
    /\ UNCHANGED <<histVars, llmVars, agentVars, ctorVars>>
    /\ UNCHANGED respVars

\* After the lazy-initialization block: preload_tts returns, speech_to_text
\* goes on to its keyword arguments and text_to_speech to the provider.
AfterInit(f) ==
    IF f.op \in {"preload_tts", "set_tts_provider"}
    THEN Return(f, IF f.op = "set_tts_provider" THEN accepted_selection ELSE NoneValue)
    ELSE [f EXCEPT !.pc = IF f.op = "speech_to_text" THEN "kwargs" ELSE "use"]

\* The test of the provider's initialized attribute.
Step_Check(t) ==
    /\ sp[t].pc = "check"
    /\ sp' = [sp EXCEPT ![t] =
           IF needs_init(initialized[sp[t].provider])
           THEN [@ EXCEPT !.pc = "init"]
           ELSE AfterInit(@)]
    /\ UNCHANGED <<tts_provider, stt_provider, initialized, initCalls, initOk,
                   initFailed, flagHist, uses, ops>>
    /\ UNCHANGED <<histVars, llmVars, agentVars, ctorVars>>
    /\ UNCHANGED respVars

\* "provider.initialize()": it sets the provider's initialized attribute when
\* it succeeds and raises otherwise.
Step_Initialize(t) ==
    /\ sp[t].pc = "init"
    /\ LET p == sp[t].provider IN
       /\ initCalls' = [initCalls EXCEPT ![p] = @ + 1]
       /\ \E ok \in BOOLEAN :
            /\ initialized' = [initialized EXCEPT ![p] = initialize_flag(@, ok)]
            /\ flagHist' = Recorded(flagHist, p, initialize_flag(initialized[p], ok))
            /\ IF ok
               THEN /\ initOk' = [initOk EXCEPT ![p] = @ + 1]
                    /\ sp' = [sp EXCEPT ![t] = [@ EXCEPT !.pc = "setflag"]]
                    /\ UNCHANGED initFailed
               ELSE /\ initFailed' = TRUE
                    /\ sp' = [sp EXCEPT ![t] = Raise(@, "init")]
                    /\ UNCHANGED initOk
    /\ UNCHANGED <<tts_provider, stt_provider, uses, ops>>
    /\ UNCHANGED <<histVars, llmVars, agentVars, ctorVars>>
    /\ UNCHANGED respVars

\* "provider.initialized = True"
Step_SetFlag(t) ==
    /\ sp[t].pc = "setflag"
    /\ initialized' = [initialized EXCEPT ![sp[t].provider] = TRUE]
    /\ flagHist' = Recorded(flagHist, sp[t].provider, TRUE)
    /\ sp' = [sp EXCEPT ![t] = AfterInit(@)]
    /\ UNCHANGED <<tts_provider, stt_provider, initCalls, initOk, initFailed,
                   uses, ops>>
    /\ UNCHANGED <<histVars, llmVars, agentVars, ctorVars>>
    /\ UNCHANGED respVars

\* speech_to_text, "if self.stt_provider == "elevenlabs"" and "elif
\* self.stt_provider in ["groq", "openai"]": each test reads the active
\* provider's name anew, after the lookup.
Step_Kwargs(t) ==
    /\ sp[t].pc \in {"kwargs", "kwargs2"}
    /\ sp' = [sp EXCEPT ![t] =
           IF @.pc = "kwargs"
           THEN IF stt_kwargs_first(stt_provider) # ""
                THEN [@ EXCEPT !.kwargs = stt_kwargs_first(stt_provider), !.pc = "use"]
                ELSE [@ EXCEPT !.pc = "kwargs2"]
           ELSE [@ EXCEPT !.kwargs = stt_kwargs_second(stt_provider), !.pc = "use"]]
    /\ UNCHANGED <<tts_provider, stt_provider, initialized, initCalls, initOk,
                   initFailed, flagHist, uses, ops>>
    /\ UNCHANGED <<histVars, llmVars, agentVars, ctorVars>>
    /\ UNCHANGED respVars

\* "return provider.speech_to_text(..., **provider_kwargs)": a TypeError when
\* the provider does not take the keyword arguments, otherwise the provider
\* returns the text or "", or raises.
Step_Use(t) ==
    /\ sp[t].pc = "use"
    /\ sp[t].op = "speech_to_text"
    /\ LET p == sp[t].provider IN
       /\ uses' = uses \cup {[provider |-> p, flag |-> initialized[p],
                               initDone |-> initOk[p] > 0]}
       /\ IF ~accepts_kwargs(p[2], sp[t].kwargs)
          THEN sp' = [sp EXCEPT ![t] = Raise(@, "kwargs")]
          ELSE \E r \in provider_speech_to_text(sp[t].arg) :
                   sp' = [sp EXCEPT ![t] = Outcome(@, r)]
    /\ UNCHANGED <<tts_provider, stt_provider, initialized, initCalls, initOk,
                   initFailed, flagHist, ops>>
    /\ UNCHANGED <<histVars, llmVars, agentVars, ctorVars>>
    /\ UNCHANGED respVars

\* SpeechService.text_to_speech is called and its result is kept: the function
\* is a generator, so the call runs none of its body.
Create_text_to_speech(t, text) ==
    /\ CanCall(t)
    /\ sp' = [sp EXCEPT ![t] = [NewSp("text_to_speech", text) EXCEPT !.pc = "created"]]
    /\ ops' = ops + 1
    /\ UNCHANGED <<tts_provider, stt_provider, initialized, initCalls, initOk,
                   initFailed, flagHist, uses>>
    /\ UNCHANGED <<histVars, llmVars, agentVars, ctorVars>>
    /\ UNCHANGED respVars

\* The first consumption of the generator starts its body: "if not text:
\* return" ends the sequence without a chunk.
Step_FirstNext(t) ==
    /\ sp[t].pc = "created"
    /\ sp' = [sp EXCEPT ![t] =
           IF is_empty_text(@.arg) THEN Return(@, "no chunks")
           ELSE [@ EXCEPT !.pc = "get"]]
    /\ UNCHANGED <<tts_provider, stt_provider, initialized, initCalls, initOk,
                   initFailed, flagHist, uses, ops>>
    /\ UNCHANGED <<histVars, llmVars, agentVars, ctorVars>>
    /\ UNCHANGED respVars

\* One consumption of "yield from provider.text_to_speech(...)": the next
\* chunk, handed to the consumer, the end of the sequence, or the provider's
\* exception. The first consumption invokes the provider.
Step_Yield(t) ==
    /\ sp[t].pc = "use"
    /\ sp[t].op = "text_to_speech"
    /\ LET p == sp[t].provider IN
       /\ uses' = IF sp[t].chunks # <<>> THEN uses
                  ELSE uses \cup {[provider |-> p, flag |-> initialized[p],
                                    initDone |-> initOk[p] > 0]}
       /\ \E r \in provider_text_to_speech(p[2], sp[t].arg, Len(sp[t].chunks)) :
            sp' = [sp EXCEPT ![t] =
                CASE r = "chunk" ->
                       [@ EXCEPT !.chunks =
                           Append(@, chunk_source(p, <<"tts", tts_provider>>)[2])]
                  [] r = "end" ->
                       Return(@, IF @.chunks = <<>> THEN "no chunks" ELSE "chunks")
                  [] OTHER -> Raise(@, "use")]
    /\ UNCHANGED <<tts_provider, stt_provider, initialized, initCalls, initOk,
                   initFailed, flagHist, ops>>
    /\ UNCHANGED <<histVars, llmVars, agentVars, ctorVars>>
    /\ UNCHANGED respVars

----------------------------------------------------------------------------
(* main.py: response, the handler of every session of the one Stream; it works
   on the module globals agent and speech_service *)

\* What the user of each session says; a successful transcription returns it.
Utterance == [t \in Callers |-> IF t = 1 THEN "Ciao" ELSE "Come stai?"]

\* A session between two calls of response. stage: the stage the turn is in or
\* ended in; dropped: the transport has dropped the turn, in the stage
\* dropped_in, with Agent.invoke at at and after delivered chunks; cause: what
\* raised the exception that left response; committed:
\* the exchanges this turn committed; mine: those of all the session's turns;
\* before: _messages when the turn began; prev: how the session's previous turn
\* ended, and what it had committed.
IdleResp ==
    [pc |-> "idle", audio |-> "", transcript |-> "", response_text |-> "",
     stage |-> "", dropped |-> FALSE, dropped_in |-> "", at |-> "",
     delivered |-> 0, cause |-> "", committed |-> <<>>, mine |-> <<>>,
     before |-> <<>>,
     prev |-> [pc |-> "idle", stage |-> "", cause |-> "", committed |-> <<>>]]

RespEnded(f) == f.pc \in {"idle", "done", "raised", "abandoned"}

\* response up to the call of speech_service.speech_to_text.
Resp_Start(t, audio) ==
    /\ RespEnded(resp[t])
    /\ speech_to_text_call(t, audio)
    /\ resp' = [resp EXCEPT ![t] =
           [IdleResp EXCEPT !.pc = "stt", !.stage = "stt", !.audio = audio,
                            !.mine = resp[t].mine, !.before = messages,
                            !.prev = [pc |-> resp[t].pc, stage |-> resp[t].stage,
                                      cause |-> resp[t].cause,
                                      committed |-> resp[t].committed]]]

\* response is suspended at "yield from", a chunk in the hands of the transport.
Suspended(t) ==
    resp[t].pc = "tts" /\ sp[t].pc = "use" /\ sp[t].chunks # <<>>

\* The steps of the SpeechService call the turn is in; nothing consumes a
\* dropped turn's sequence beyond the chunk it was dropped at.
Resp_Speech(t) ==
    /\ resp[t].pc \in {"stt", "tts"}
    /\ ~(resp[t].dropped /\ Suspended(t))
    /\ \/ Step_GetProvider(t)
       \/ Step_Check(t)
       \/ Step_Initialize(t)
       \/ Step_SetFlag(t)
       \/ Step_Kwargs(t)
       \/ Step_Use(t)
       \/ Step_Yield(t)

\* speech_to_text has ended: its exception leaves response, its value is the
\* transcript handed to agent.invoke.
Resp_Transcribed(t) ==
    /\ resp[t].pc = "stt"
    /\ sp[t].pc = "returned"
    /\ IF sp[t].result = Raised
       THEN /\ resp' = [resp EXCEPT ![t] =
                   [@ EXCEPT !.pc = IF resp[t].dropped THEN "abandoned" ELSE "raised",
                             !.cause = sp[t].raisedBy]]
            /\ UNCHANGED <<histVars, llmVars, agentVars, speechVars>>
       ELSE LET transcript == IF sp[t].result = "text" THEN Utterance[t] ELSE ""
            IN  /\ invoke_call(t, transcript)
                /\ resp' = [resp EXCEPT ![t] =
                       [@ EXCEPT !.pc = "invoke", !.stage = "invoke",
                                 !.transcript = transcript]]

\* The steps of generate_response inside agent.invoke.
Resp_Generate(t) ==
    /\ resp[t].pc = "invoke"
    /\ \/ Gen_Primary(t)
       \/ Gen_Fallback(t)

\* agent.invoke commits the exchange: the statements of add_exchange, which
\* holds no lock.
Resp_Commit(t) ==
    /\ resp[t].pc = "invoke"
    /\ \/ /\ addex_user(t)
          /\ LET r == invoke_exchanges(turn[t].gen, turn[t].input_text)
             IN  resp' = [resp EXCEPT ![t] =
                    [@ EXCEPT !.committed = @ \o r.exchanges,
                              !.mine = @ \o r.exchanges]]
       \/ addex_assistant(t) /\ UNCHANGED resp
       \/ addex_cut(t) /\ UNCHANGED resp

\* agent.invoke returns its dictionary.
Resp_Invoked(t) ==
    /\ resp[t].pc = "invoke"
    /\ Invoke_Return(t)

\* Mutant of response_text_of: the first message of the result is taken.
response_text_of_First(result) == result[1].content

\* agent_response["messages"][-1]["content"]
response_text_of(result) == result[Len(result)].content

\* response from the return of agent.invoke to the call of
\* speech_service.text_to_speech with the response text.
Resp_Respond(t) ==
    /\ resp[t].pc = "invoke"
    /\ turn[t].pc = "returned"
    /\ LET response_text == response_text_of(turn[t].result)
       IN  /\ text_to_speech_call(t, response_text)
           /\ resp' = [resp EXCEPT ![t] =
                  [@ EXCEPT !.pc = "tts", !.stage = "tts",
                            !.response_text = response_text]]

\* text_to_speech has ended: its exception leaves response, otherwise the
\* generator is exhausted.
Resp_Finish(t) ==
    /\ resp[t].pc = "tts"
    /\ sp[t].pc = "returned"
    /\ resp' = [resp EXCEPT ![t] =
           IF sp[t].result = Raised
           THEN [@ EXCEPT !.pc = IF resp[t].dropped THEN "abandoned" ELSE "raised",
                          !.cause = sp[t].raisedBy]
           ELSE [@ EXCEPT !.pc = IF resp[t].dropped THEN "abandoned" ELSE "done"]]
    /\ UNCHANGED <<histVars, llmVars, agentVars, speechVars>>

\* The transport drops the turn. A turn suspended at "yield from" ends there:
\* its generator is closed or collected, which closes the provider's
\* sequence; an exception of the provider's cleanup leaves response (cause
\* "use"). A turn that is not suspended is
\* running: a running generator cannot be closed, so the turn goes on, to its
\* first chunk or to its end, and nothing consumes it further.
Resp_Abandon(t) ==
    /\ resp[t].pc \in {"stt", "invoke", "tts"}
    /\ \/ /\ ~resp[t].dropped /\ ~Suspended(t)
          /\ resp' = [resp EXCEPT ![t] =
                 [@ EXCEPT !.dropped = TRUE, !.dropped_in = resp[t].stage,
                           !.at = turn[t].pc]]
          /\ UNCHANGED <<sp, turn>>
       \/ /\ Suspended(t)
          /\ \E r \in provider_close(sp[t].provider[2]) :
               LET cause == IF r = Raised THEN "use" ELSE "" IN
               resp' = [resp EXCEPT ![t] =
                 IF @.dropped
                 THEN [@ EXCEPT !.pc = "abandoned", !.cause = cause,
                                !.delivered = Len(sp[t].chunks)]
                 ELSE [@ EXCEPT !.pc = "abandoned", !.dropped = TRUE,
                                !.dropped_in = resp[t].stage, !.at = turn[t].pc,
                                !.cause = cause,
                                !.delivered = Len(sp[t].chunks)]]
          /\ sp' = [sp EXCEPT ![t] = IdleSp]
          /\ turn' = [turn EXCEPT ![t] = IdleTurn]
    /\ UNCHANGED <<histVars, llmVars, invokes, tts_provider, stt_provider,
                   initialized, initCalls, initOk, initFailed, flagHist, uses,
                   ops, ctorVars>>

RespStep(t) ==
    \/ \E audio \in Audios : Resp_Start(t, audio)
    \/ Resp_Speech(t)
    \/ Resp_Transcribed(t)
    \/ Resp_Generate(t)
    \/ Resp_Commit(t)
    \/ Resp_Invoked(t)
    \/ Resp_Respond(t)
    \/ Resp_Finish(t)

----------------------------------------------------------------------------
(* Initial states: the objects as their constructors leave them *)

\* ChatHistory.__init__
InitHistory(capacities, prompts) ==
    /\ system_prompt \in prompts
    /\ max_history_pairs \in capacities
    /\ messages = FreshMessages(system_prompt)
    /\ committed = <<>>
    /\ clears = <<>>

\* LLMService.__init__
InitLLMConfig(modes, providers, lists) ==
    /\ llm_mode \in modes
    /\ llm_provider \in providers
    /\ temperature = "0.5"
    /\ fallback_models \in lists
    /\ model = get_model_name(llm_mode, llm_provider)

\* LLMService.__init__ with LLM_MODE and LLM_PROVIDER unset: cloud, openai.
InitLLM(lists) == InitLLMConfig({"cloud"}, {"openai"}, lists)

InitAgent ==
    /\ turn = [t \in Callers |-> IdleTurn]
    /\ invokes = 0

\* SpeechService.__init__, preload_tts of the active TTS provider included.
InitSpeech(ttsNames, sttNames) ==
    /\ ctor_tts_name \in ttsNames
    /\ ctor_stt_name \in sttNames
    /\ tts_provider = ctor_tts_provider(ctor_tts_name)
    /\ stt_provider = ctor_stt_provider(ctor_stt_name)
    /\ initialized = [p \in Providers |-> p = <<"tts", tts_provider>>]
    /\ initCalls = [p \in Providers |-> IF p = <<"tts", tts_provider>> THEN 1 ELSE 0]
    /\ initOk = initCalls
    /\ initFailed = FALSE
    /\ flagHist = [p \in Providers |->
                      IF initialized[p] THEN <<FALSE, TRUE>> ELSE <<FALSE>>]
    /\ uses = {}
    /\ sp = [t \in Callers |-> IdleSp]
    /\ ops = 0

InitResp == resp = [t \in Callers |-> IdleResp]

DefaultHistory == InitHistory({1}, {"You are Fernando."})
DefaultLLM     == InitLLM({<<"">>})
DefaultSpeech  == InitSpeech({"elevenlabs"}, {"elevenlabs"})

----------------------------------------------------------------------------
(* The chat history alone: add_exchange called from a fresh history *)

History_add_exchange(u, a) ==
    /\ Len(committed) < MaxCommits
    /\ messages' = add_exchange(messages, system_prompt, max_history_pairs, u, a)
    /\ committed' = Append(committed, <<u, a>>)
    /\ UNCHANGED <<system_prompt, max_history_pairs, clears, llmVars, agentVars, speechVars,
                   respVars>>

\* Agent.clear_history, that is ChatHistory.clear.
History_clear ==
    /\ Len(clears) < MaxClears
    /\ messages' = clear(system_prompt).messages
    /\ committed' = <<>>
    /\ clears' = Append(clears, [result |-> clear(system_prompt).result,
                                 dropped |-> Len(messages) - 1])
    /\ UNCHANGED <<system_prompt, max_history_pairs, llmVars, agentVars, speechVars,
                   respVars>>

InitH == InitHistory(0..MaxP, Prompts) /\ DefaultLLM /\ InitAgent /\ DefaultSpeech
         /\ InitResp
NextH ==
    \/ \E u \in UserTexts, a \in Replies : History_add_exchange(u, a)
    \/ History_clear
SpecHistory == InitH /\ [][NextH]_vars

----------------------------------------------------------------------------
(* One caller running Agent.invoke turn after turn *)

InitA == InitHistory(1..MaxP, {"You are Fernando."}) /\ InitLLM(FallbackLists)
         /\ InitAgent /\ DefaultSpeech /\ InitResp
NextA ==
    \E t \in {1} :
        \/ \E text \in UserTexts : Invoke_Start(t, text)
        \/ Gen_Primary(t)
        \/ Gen_Fallback(t)
        \/ Invoke_Commit(t)
        \/ Invoke_Return(t)
SpecAgent == InitA /\ [][NextA]_vars

\* Agent.invoke with every LLM_MODE and LLM_PROVIDER.
InitL == InitHistory({1}, {"You are Fernando."})
         /\ InitLLMConfig(LLMModes, LLMProviders,
                          {<<"">>, <<"groq/llama-3.1-8b-instant">>,
                           <<"ollama/llama3.1:8b">>})
         /\ InitAgent /\ DefaultSpeech /\ InitResp
SpecLLM == InitL /\ [][NextA]_vars

----------------------------------------------------------------------------
(* Two callers running Agent.invoke on the one Agent *)

InitAC == InitHistory(1..MaxP, {"You are Fernando."}) /\ DefaultLLM /\ InitAgent
          /\ DefaultSpeech /\ InitResp
NextAC ==
    \E t \in Callers :
        \/ Invoke_Start(t, Utterance[t])
        \/ Gen_Primary(t)
        \/ Gen_Fallback(t)
        \/ AddEx_User(t)
        \/ AddEx_Assistant(t)
        \/ AddEx_Cut(t)
        \/ Invoke_Return(t)
SpecAgentConc == InitAC /\ [][NextAC]_vars

----------------------------------------------------------------------------
(* The speech service: one caller, and concurrent callers *)

SpeechStep(t) ==
    \/ Call_preload_tts(t)
    \/ \E name \in ProviderNames : Call_set_tts_provider(t, name)
    \/ \E name \in ProviderNames : Call_set_stt_provider(t, name)
    \/ \E text \in Texts : Call_text_to_speech(t, text)
    \/ \E audio \in Audios : Call_speech_to_text(t, audio)
    \/ Step_GetProvider(t)
    \/ Step_Check(t)
    \/ Step_Initialize(t)
    \/ Step_SetFlag(t)
    \/ Step_Kwargs(t)
    \/ Step_Use(t)
    \/ Step_Yield(t)

InitS == DefaultHistory /\ DefaultLLM /\ InitAgent
         /\ InitSpeech(ProviderNames, ProviderNames) /\ InitResp
NextSeq == \E t \in {1} : SpeechStep(t)
SpecSpeech == InitS /\ [][NextSeq]_vars

\* The service as main.py constructs it by default, shared by the callers.
InitC == DefaultHistory /\ DefaultLLM /\ InitAgent /\ DefaultSpeech /\ InitResp
\* The names the concurrent callers select: the other TTS provider, another
\* STT provider, and a name that is not registered.
ConcNames == {"kokoro", "groq", "nonexistent"}
NextConc ==
    \E t \in Callers :
        \/ Call_preload_tts(t)
        \/ \E name \in ConcNames : Call_set_tts_provider(t, name)
        \/ \E name \in ConcNames : Call_set_stt_provider(t, name)
        \/ \E text \in {"", "Buonasera!"} : Call_text_to_speech(t, text)
        \/ \E audio \in Audios : Call_speech_to_text(t, audio)
        \/ Step_GetProvider(t)
        \/ Step_Check(t)
        \/ Step_Initialize(t)
        \/ Step_SetFlag(t)
        \/ Step_Kwargs(t)
        \/ Step_Use(t)
        \/ Step_Yield(t)
SpecSpeechConc == InitC /\ [][NextConc]_vars

\* One caller consuming text_to_speech chunk by chunk while another selects
\* TTS providers.
NextLazy ==
    \/ \E t \in {1} :
          \/ \E text \in Texts : Create_text_to_speech(t, text)
          \/ Step_FirstNext(t)
          \/ Step_Yield(t)
    \/ \E t \in {2} : \E name \in ProviderNames : Call_set_tts_provider(t, name)
    \/ \E t \in Callers :
          \/ Step_GetProvider(t)
          \/ Step_Check(t)
          \/ Step_Initialize(t)
          \/ Step_SetFlag(t)
SpecTtsLazy == InitC /\ [][NextLazy]_vars

\* speech_to_text called with every kind of audio argument, for each STT
\* provider the service can be constructed with.
InitStt == DefaultHistory /\ DefaultLLM /\ InitAgent /\ InitResp
           /\ InitSpeech({"elevenlabs"}, STT_Registered)
NextStt ==
    \E t \in {1} :
        \/ \E audio \in AllAudios : Call_speech_to_text(t, audio)
        \/ Step_GetProvider(t)
        \/ Step_Check(t)
        \/ Step_Initialize(t)
        \/ Step_SetFlag(t)
        \/ Step_Kwargs(t)
        \/ Step_Use(t)
SpecStt == InitStt /\ [][NextStt]_vars

----------------------------------------------------------------------------
(* response: one session turn after turn, and two sessions of the one Stream *)

InitT == InitHistory(1..MaxP, {"You are Fernando."}) /\ DefaultLLM /\ InitAgent
         /\ DefaultSpeech /\ InitResp
NextT == \E t \in {1} : RespStep(t) \/ Resp_Abandon(t)
SpecTurn == InitT /\ [][NextT]_vars

InitSessions == DefaultHistory /\ DefaultLLM /\ InitAgent /\ DefaultSpeech /\ InitResp
NextSessions == \E t \in Callers : RespStep(t)
SpecSessions == InitSessions /\ [][NextSessions]_vars

----------------------------------------------------------------------------
(* Properties of the chat history, under SpecHistory *)

RECURSIVE Flatten(_)
\* The messages of a sequence of (user, assistant) pairs.
Flatten(pairs) ==
    IF pairs = <<>> THEN <<>>
    ELSE <<UserMessage(pairs[1][1]), AssistantMessage(pairs[1][2])>>
         \o Flatten(Tail(pairs))

\* The last n elements of a sequence.
LastN(s, n) == SubSeq(s, Len(s) - n + 1, Len(s))

\* C1: with a capacity P >= 1, after any sequence of add_exchange calls on a
\* fresh history the first message (of _messages and of get_messages()) is the
\* system message with the construction-time prompt, and the length is at most
\* 2P + 1.
C1_SystemFirstAndBounded ==
    max_history_pairs >= 1 =>
        /\ messages # <<>>
        /\ messages[1] = SystemMessage(system_prompt)
        /\ get_messages(messages, system_prompt)[2][1] = SystemMessage(system_prompt)
        /\ current_length <= 2 * max_history_pairs + 1

\* C1 witness: more pairs committed than the capacity holds, the history full.
C1_Witness ==
    /\ max_history_pairs >= 1
    /\ Len(committed) > max_history_pairs
    /\ current_length = 2 * max_history_pairs + 1

\* C2: with a capacity P >= 1, after n add_exchange calls the history is the
\* system message followed by the last min(n, P) committed pairs, each whole
\* and in commit order.
C2_LastPairsKept ==
    max_history_pairs >= 1 =>
        messages = <<SystemMessage(system_prompt)>>
                   \o Flatten(LastN(committed, Min(Len(committed), max_history_pairs)))

\* C2 witness: P + 1 pairs committed, the evicted one differing from the rest.
C2_Witness ==
    /\ max_history_pairs >= 1
    /\ Len(committed) = max_history_pairs + 1
    /\ \A i \in 2..Len(committed) : committed[i] # committed[1]
    /\ Len(messages) = 2 * max_history_pairs + 1

----------------------------------------------------------------------------
(* Properties of generate_response and Agent.invoke, under SpecAgent *)

\* The chain of model identifiers: the primary, then the non-blank fallbacks.
Chain == <<model>> \o SelectSeq(fallback_models, LAMBDA e : ~IsBlank(e))

Generated(f) == f.pc \in {"generated", "return", "returned"}
AllAttemptsFailed(f) == \A i \in 1..Len(f.calls) : ~f.calls[i].ok

\* C3: the attempts of one generate_response call follow the chain in order,
\* every attempt but the last has failed, a successful attempt ends the call
\* with that attempt's text, and a successful primary means exactly one call.
C3_ChainOrder ==
    \A t \in Callers :
        LET f == turn[t]
            c == f.calls
        IN  /\ Len(c) <= Len(Chain)
            /\ \A i \in 1..Len(c) : c[i].model = Chain[i]
            /\ \A i \in 1..(Len(c) - 1) : ~c[i].ok
            /\ (c # <<>> /\ c[Len(c)].ok) =>
                   /\ Generated(f)
                   /\ f.gen = [raised |-> FALSE, text |-> c[Len(c)].text]
                   /\ f.kwargs_model = c[Len(c)].model
            /\ (c # <<>> /\ c[1].ok) => Len(c) = 1

\* C3 witness: a chain [A, B, C] with A != B != C where A and B failed and C
\* succeeded, the call returned.
C3_Witness ==
    LET f == turn[1]
    IN  /\ f.pc = "returned"
        /\ Len(f.calls) = 3
        /\ f.calls[3].ok
        /\ f.calls[2].model # f.calls[3].model

\* C4: when every attempt has failed, generate_response returns the apology
\* string of the LLM service without raising, and Agent.invoke commits
\* (user_text, apology) and returns that apology as the assistant message.
C4_TotalFailureDegrades ==
    \A t \in Callers :
        LET f == turn[t]
        IN  (Generated(f) /\ AllAttemptsFailed(f)) =>
                /\ f.gen = [raised |-> FALSE, text |-> LLMApology]
                /\ f.pc \in {"return", "returned"} =>
                       /\ f.assistant_response = LLMApology
                       /\ f.commits = << <<f.input_text, LLMApology>> >>
                       /\ committed[Len(committed)] = <<f.input_text, LLMApology>>
                       /\ LastN(messages, 2) = <<UserMessage(f.input_text),
                                                  AssistantMessage(LLMApology)>>
                /\ f.pc = "returned" =>
                       f.result = <<UserMessage(f.input_text),
                                    AssistantMessage(LLMApology)>>

\* C4 witness: an invoke returned after the primary and two fallbacks failed.
C4_Witness ==
    LET f == turn[1]
    IN  /\ f.pc = "returned"
        /\ Len(f.calls) = 3
        /\ AllAttemptsFailed(f)

\* C5: every Agent.invoke call gives exactly one exchange to add_exchange,
\* (input_text, assistant_response), after generation and before it returns,
\* and the committed assistant text is the one returned to the caller.
C5_CommitExactlyOnce ==
    /\ \A t \in Callers :
          LET f == turn[t]
          IN  /\ f.pc \in {"primary", "fallback", "generated"} => f.commits = <<>>
              /\ f.pc \in {"return", "returned"} =>
                     f.commits = << <<f.input_text, f.assistant_response>> >>
              /\ f.pc = "returned" =>
                     /\ f.result[1] = UserMessage(f.input_text)
                     /\ f.result[2] = AssistantMessage(f.commits[1][2])
    /\ Len(committed) =
          invokes - Cardinality({t \in Callers :
                                   turn[t].pc \in {"primary", "fallback", "generated"}})

\* C5 witness: the second invoke returned, answered by a fallback model.
C5_Witness ==
    LET f == turn[1]
    IN  /\ f.pc = "returned"
        /\ invokes = 2
        /\ Len(f.calls) >= 2
        /\ f.calls[Len(f.calls)].ok
        /\ Len(committed) = 2

----------------------------------------------------------------------------
(* Properties of the speech service *)

IsSelection(f) == f.op \in {"set_tts_provider", "set_stt_provider"}

\* A selection request whose name is not registered for its capability.
Rejected(f) ==
    \/ f.op = "set_tts_provider" /\ Lower(f.arg) \notin TTS_Registered
    \/ f.op = "set_stt_provider" /\ Lower(f.arg) \notin STT_Registered

\* C6, under SpecSpeechConc: when callers race on the lazy-initialization
\* check of a provider and no initialize() fails, the provider's initialize()
\* is invoked once in total, and every caller that has passed the check sees
\* the provider initialized.
C6_InitializeOnceUnderRace ==
    ~initFailed =>
        /\ \A p \in Providers : initCalls[p] <= 1
        /\ \A t \in Callers : sp[t].pc = "use" => initialized[sp[t].provider]

\* C7, under SpecSpeechConc: every invocation of a provider's speech_to_text
\* or text_to_speech through the service happens after an initialize() of that
\* provider instance returned, with its initialized flag set.
C7_InitializedBeforeUse ==
    /\ \A u \in uses : u.initDone /\ u.flag
    /\ \A t \in Callers :
          sp[t].pc = "use" =>
              initOk[sp[t].provider] >= 1 /\ initialized[sp[t].provider]

\* C7 witness: an STT provider, not initialized at construction, has been
\* used after callers raced on its lazy initialization.
C7_Witness ==
    \E u \in uses :
        /\ u.provider[1] = "stt"
        /\ initCalls[u.provider] = 2
        /\ \E t \in Callers : sp[t].pc = "returned" /\ sp[t].result = "text"

\* C8, under SpecSpeech: in a sequential run the initialized flag of a
\* provider only ever goes from False to True, and while no initialize() has
\* failed each provider's initialize() is invoked at most once, the flag being
\* set exactly when it has been.
C8_InitializeAtMostOnce ==
    /\ \A p \in Providers : flagHist[p] \in {<<FALSE>>, <<FALSE, TRUE>>}
    /\ ~initFailed =>
          \A p \in Providers :
              /\ initCalls[p] <= 1
              /\ sp[1].pc \in {"idle", "returned"} =>
                     (initialized[p] <=> initCalls[p] = 1)

\* C8 witness: set_tts_provider returned to a provider that was initialized
\* earlier and had been switched away from; both TTS providers were
\* initialized once.
C8_Witness ==
    LET f == sp[1]
    IN  /\ f.pc = "returned"
        /\ f.op = "set_tts_provider"
        /\ f.result = NoneValue
        /\ tts_provider = Lower(f.arg)
        /\ f.pre.tts_provider # tts_provider
        /\ f.pre.initialized[<<"tts", tts_provider>>]
        /\ ~initFailed
        /\ \A n \in TTS_Registered : initCalls[<<"tts", n>>] = 1

\* C9, under SpecSpeech: the active provider names are always registered
\* names, and a selection request with an unregistered name leaves the active
\* providers, every initialized flag and the count of initialize() calls as
\* they were.
C9_UnknownSelectionIsNoOp ==
    /\ tts_provider \in TTS_Registered
    /\ stt_provider \in STT_Registered
    /\ \A t \in {1} :
          (sp[t].pc = "returned" /\ IsSelection(sp[t]) /\ Rejected(sp[t])) =>
              Snapshot = sp[t].pre

\* C9 witness: set_tts_provider("groq"), a name registered for STT only, has
\* returned while kokoro was the active TTS provider.
C9_Witness ==
    /\ sp[1].pc = "returned"
    /\ sp[1].op = "set_tts_provider"
    /\ sp[1].arg = "groq"
    /\ tts_provider = "kokoro"
    /\ ops >= 2

\* C10: a rejected selection returns a value that differs from the
\* one an accepted selection returns.
C10_RejectionReturnsError ==
    \A t \in {1} :
        (sp[t].pc = "returned" /\ IsSelection(sp[t]) /\ Rejected(sp[t])) =>
            sp[t].result # accepted_selection

----------------------------------------------------------------------------
(* Properties of SpeechService.__init__, under SpecSpeech *)

\* C11: a SpeechService constructed with a TTS or STT provider name outside the
\* registered set exists (construction has not failed) with "elevenlabs" as the
\* active provider of that side, and a registered name given for the other side
\* is kept (lowered): the two sides are resolved independently.
C11_UnknownCtorNameDefaults ==
    ops = 0 =>
        /\ Lower(ctor_tts_name) \notin TTS_Registered => tts_provider = "elevenlabs"
        /\ Lower(ctor_tts_name) \in TTS_Registered => tts_provider = Lower(ctor_tts_name)
        /\ Lower(ctor_stt_name) \notin STT_Registered => stt_provider = "elevenlabs"
        /\ Lower(ctor_stt_name) \in STT_Registered => stt_provider = Lower(ctor_stt_name)

\* C11 witness: constructed with an unknown TTS name and the STT name "groq":
\* TTS is the default and STT is still groq.
C11_Witness ==
    /\ ops = 0
    /\ ctor_tts_name = "nonexistent"
    /\ ctor_stt_name = "groq"
    /\ tts_provider = "elevenlabs"
    /\ stt_provider = "groq"
    /\ initialized[<<"tts", "elevenlabs">>]

----------------------------------------------------------------------------
(* Properties of response, under SpecSessions and SpecTurn *)

\* The messages of the exchanges a session has committed.
OwnMessages(t) ==
    {UserMessage(resp[t].mine[j][1]) : j \in 1..Len(resp[t].mine)}
    \cup {AssistantMessage(resp[t].mine[j][2]) : j \in 1..Len(resp[t].mine)}

\* C12: the sessions served by response share nothing: the context given to
\* the LLM in a session's turn holds, between the system message and the
\* pending user message, only messages of exchanges that this same session
\* committed.
C12_SessionsShareNothing ==
    \A t \in Callers :
        (resp[t].pc = "invoke" /\ turn[t].context # <<>>) =>
            \A i \in 2..(Len(turn[t].context) - 1) :
                turn[t].context[i] \in OwnMessages(t)

----------------------------------------------------------------------------
(* Properties of concurrent Agent.invoke calls, under SpecAgentConc *)

InAddExchange(f) == f.pc \in {"add_assistant", "cut"}

\* C13: the commits on one Agent are serialized: whenever no add_exchange is in
\* progress, the history is the system message alone at index 0 followed by
\* whole exchanges (each user message immediately followed by the assistant
\* message committed with it), at most 2P + 1 messages in all.
C13_CommitsSerialized ==
    (\A t \in Callers : ~InAddExchange(turn[t])) =>
        /\ messages[1] = SystemMessage(system_prompt)
        /\ Len(messages) <= 2 * max_history_pairs + 1
        /\ Len(messages) % 2 = 1
        /\ \A k \in 1..((Len(messages) - 1) \div 2) :
               \E j \in 1..Len(committed) :
                   /\ messages[2 * k] = UserMessage(committed[j][1])
                   /\ messages[2 * k + 1] = AssistantMessage(committed[j][2])

----------------------------------------------------------------------------
(* Properties of one session's turns, under SpecTurn *)

\* The transport dropped the turn before generate_response had returned, or
\* the turn ended with an exception of the STT stage.
DroppedBeforeCommit(f) ==
    \/ /\ f.dropped
       /\ \/ f.dropped_in = "stt"
          \/ f.dropped_in = "invoke" /\ f.at \in {"primary", "fallback"}
    \/ f.pc = "raised" /\ f.stage = "stt"

\* The transport dropped the turn after add_exchange, or the turn ended with
\* an exception of the TTS stage.
DroppedAfterCommit(f) ==
    \/ /\ f.dropped
       /\ \/ f.dropped_in = "tts"
          \/ f.dropped_in = "invoke" /\ f.at \in {"return", "returned"}
    \/ f.pc = "raised" /\ f.stage = "tts"

\* C14: a turn dropped before the LLM generation has returned leaves the
\* history as it was when the turn began, from then on; a turn dropped
\* after the commit leaves the history ending with the complete committed pair;
\* and outside add_exchange the history is the system message followed by
\* whole (user, assistant) pairs, never the user half of an exchange alone.
C14_CommitAllOrNothing ==
    \A t \in {1} :
        LET f == resp[t] IN
        /\ ~InAddExchange(turn[t]) =>
               messages = <<SystemMessage(system_prompt)>>
                          \o Flatten(LastN(committed, Min(Len(committed), max_history_pairs)))
        /\ DroppedBeforeCommit(f) => f.committed = <<>> /\ messages = f.before
        /\ DroppedAfterCommit(f) =>
               /\ Len(f.committed) = 1
               /\ LastN(messages, 2) = Flatten(f.committed)
               /\ SubSeq(messages, 1, Len(messages) - 2)
                      = <<SystemMessage(system_prompt)>>
                        \o LastN(f.before, Min(Len(f.before) - 1,
                                               2 * (max_history_pairs - 1)))

\* The turn ended with an exception of the text_to_speech call.
TtsFailed(f) == f.pc = "raised" /\ f.stage = "tts"

\* C15: when the TTS stage of a turn fails, after Agent.invoke has committed,
\* the exchange stays at the end of the history (nothing rolls it back), and
\* the context of the session's next turn holds it right before the new pending
\* user message.
C15_TtsFailureKeepsExchange ==
    \A t \in {1} :
        LET f == resp[t]
            c == turn[t].context
        IN  /\ TtsFailed(f) =>
                   /\ Len(f.committed) = 1
                   /\ LastN(messages, 2) = Flatten(f.committed)
            /\ (TtsFailed(f.prev) /\ f.pc = "invoke" /\ c # <<>>) =>
                   /\ Len(c) >= 4
                   /\ SubSeq(c, Len(c) - 2, Len(c) - 1) = Flatten(f.prev.committed)
                   /\ c[Len(c)] = UserMessage(f.transcript)

\* C15 witness: the first turn's TTS raised, the second turn has built its LLM
\* context, and the LLM is being called with it.
C15_Witness ==
    /\ TtsFailed(resp[1].prev)
    /\ resp[1].pc = "invoke"
    /\ turn[1].pc = "primary"
    /\ turn[1].context = <<SystemMessage(system_prompt)>>
                         \o Flatten(resp[1].prev.committed)
                         \o <<UserMessage(Utterance[1])>>

\* C16 as stated: no failure of the provider call of a stage makes response
\* raise to the audio transport.
C16_StageFailureNeverRaises ==
    \A t \in {1} : resp[t].pc = "raised" => resp[t].cause # "use"

\* C16, amended: response raises only for an exception of the TTS provider's
\* text_to_speech or of a provider's initialize(); an STT backend error gives
\* the empty transcript and the failure of every LLM model gives the apology,
\* and the turn goes on with them; a TTS backend error always leaves response
\* as an exception, after the commit of the exchange (to no one when the
\* transport has dropped the turn).
C16_OnlySynthesisAndInitRaise ==
    \A t \in {1} :
        LET f == resp[t]
            g == sp[t]
            u == turn[t]
        IN  /\ f.pc = "raised" =>
                   \/ f.cause = "init"
                   \/ f.cause = "use" /\ f.stage = "tts" /\ Len(f.committed) = 1
            /\ (f.stage = "tts" /\ g.pc = "returned" /\ g.raisedBy = "use"
                /\ ~f.dropped) =>
                   f.pc \in {"tts", "raised"}
            /\ f.pc = "done" => g.result = "chunks"
            /\ (f.stage = "tts" /\ u.pc = "returned" /\ AllAttemptsFailed(u)) =>
                   /\ f.response_text = LLMApology
                   /\ f.committed = << <<f.transcript, LLMApology>> >>

\* C16 witness: the first turn left response with the TTS backend's exception;
\* in the next turn the transcription gave "" and every LLM model failed, and
\* Agent.invoke has returned the apology.
C16_Witness ==
    LET f == resp[1] IN
    /\ f.prev.pc = "raised" /\ f.prev.stage = "tts" /\ f.prev.cause = "use"
    /\ f.pc = "invoke" /\ f.transcript = ""
    /\ sp[1].op = "speech_to_text" /\ sp[1].arg = "speech" /\ sp[1].result = ""
    /\ turn[1].pc = "returned"
    /\ AllAttemptsFailed(turn[1])
    /\ turn[1].result[2] = AssistantMessage(LLMApology)

----------------------------------------------------------------------------
(* Properties of the lazy initialization and of the argument checks, under
   SpecSpeech and SpecStt *)

\* C17: when the provider's initialize() raises during a call, the call ends
\* with that exception, the provider's text_to_speech / speech_to_text has not
\* been invoked, and the provider's initialized flag is still False; a call
\* that finds the flag False invokes initialize() (again) before it reaches the
\* provider.
C17_FailedInitIsRetried ==
    \A t \in {1} :
        LET g == sp[t]
            p == g.provider
        IN  /\ (g.pc = "returned" /\ g.raisedBy = "init") =>
                   /\ g.result = Raised
                   /\ ~initialized[p]
                   /\ initCalls[p] = g.pre.initCalls[p] + 1
                   /\ initOk[p] = 0
                   /\ \A u \in uses : u.provider # p
            /\ (g.pc = "use" /\ ~g.pre.initialized[p]) =>
                   /\ initialized[p]
                   /\ initCalls[p] = g.pre.initCalls[p] + 1

\* C17 witness: a speech_to_text call ended with the exception of groq's
\* initialize(), and so did the next one: initialize() has been invoked twice
\* and the flag is still False.
C17_Witness ==
    LET g == sp[1] IN
    /\ g.pc = "returned" /\ g.op = "speech_to_text" /\ g.raisedBy = "init"
    /\ g.provider = <<"stt", "groq">>
    /\ g.pre.initCalls[g.provider] = 1
    /\ initCalls[g.provider] = 2
    /\ ~initialized[g.provider]

\* C18: text_to_speech called with an empty text ("" or None) yields no chunk
\* and does not raise, whichever TTS provider is active and whether or not it
\* is initialized: the provider is neither looked up nor initialized nor
\* invoked, and the service is left as it was.
C18_EmptyTextYieldsNothing ==
    \A t \in {1} :
        LET g == sp[t] IN
        (g.op = "text_to_speech" /\ g.arg \in {"", NoneText}) =>
            /\ g.pc = "returned"
            /\ g.result = "no chunks"
            /\ g.raisedBy = ""
            /\ g.provider = <<>>
            /\ Snapshot = g.pre

\* C18 witness: text_to_speech(None) has returned without a chunk while the
\* active TTS provider, kokoro, is not initialized (its initialize() raised
\* when it was selected).
C18_Witness ==
    LET g == sp[1] IN
    /\ g.pc = "returned" /\ g.op = "text_to_speech" /\ g.arg = NoneText
    /\ g.result = "no chunks"
    /\ tts_provider = "kokoro"
    /\ ~initialized[<<"tts", "kokoro">>]
    /\ initCalls[<<"tts", "kokoro">>] = 1

\* C19: for every empty or malformed audio argument (None, a tuple whose
\* length is not 2, a sample array without the channel dimension, an array
\* with zero samples) and every registered STT provider, a speech_to_text call
\* whose provider initializes returns "" and does not raise.
C19_MalformedAudioReturnsEmpty ==
    \A t \in {1} :
        LET g == sp[t] IN
        (/\ g.pc = "returned" /\ g.op = "speech_to_text"
         /\ g.arg \in {"none", "short", "flat", "empty"}
         /\ g.raisedBy # "init") =>
            g.result = "" /\ g.raisedBy = ""

----------------------------------------------------------------------------
(* The context of the LLM call and the history, under SpecAgent *)

\* C20: get_messages returns a copy, so the append of the pending user message
\* in Agent.invoke changes the context and not the history: while
\* generate_response runs and until add_exchange is called, the context is the
\* current history followed by the user message (its last element), it begins
\* with the system message and has at most 2P + 2 messages, and the history is
\* still the system message followed by the last committed pairs.
C20_ContextIsCopyPlusPending ==
    \A t \in {1} :
        LET f == turn[t] IN
        f.pc \in {"primary", "fallback", "generated"} =>
            /\ f.context = Append(messages, UserMessage(f.input_text))
            /\ f.context[Len(f.context)] = UserMessage(f.input_text)
            /\ f.context[1] = SystemMessage(system_prompt)
            /\ Len(f.context) <= 2 * max_history_pairs + 2
            /\ get_messages(messages, system_prompt)[2] = messages
            /\ messages = <<SystemMessage(system_prompt)>>
                          \o Flatten(LastN(committed,
                                           Min(Len(committed), max_history_pairs)))

\* C20 witness: the history is full (2P + 1 messages) and a fallback model is
\* being called with a context of 2P + 2 messages.
C20_Witness ==
    /\ turn[1].pc = "fallback"
    /\ Len(messages) = 2 * max_history_pairs + 1
    /\ Len(turn[1].context) = 2 * max_history_pairs + 2
    /\ turn[1].context[Len(turn[1].context)] = UserMessage(turn[1].input_text)
    /\ turn[1].context[Len(turn[1].context)] # messages[Len(messages) - 1]

----------------------------------------------------------------------------
(* clear and the zero capacity, under SpecHistory *)

\* C21: whatever the history holds, clear leaves exactly one message, the
\* system message with the construction-time prompt, and returns True; the
\* commits made after it give the history that the same commits give on a
\* freshly constructed history of the same capacity.
C21_ClearResets ==
    /\ \A i \in 1..Len(clears) : clears[i].result = TRUE
    /\ (clears # <<>> /\ committed = <<>>) =>
           messages = <<SystemMessage(system_prompt)>>
    /\ clears # <<>> =>
           messages = add_exchanges(FreshMessages(system_prompt), system_prompt,
                                    max_history_pairs, committed)

\* C21 witness: a full history was cleared, and more pairs than the capacity
\* holds have been committed since.
C21_Witness ==
    /\ max_history_pairs >= 1
    /\ clears # <<>>
    /\ clears[1].dropped = 2 * max_history_pairs
    /\ Len(committed) = max_history_pairs + 1
    /\ Len(messages) = 2 * max_history_pairs + 1

----------------------------------------------------------------------------
(* The order of the stages of a turn, under SpecTurn *)

\* C22: in a turn of response the stages follow one another as STT call, LLM
\* generation, commit, TTS call: nothing is committed while the STT call runs;
\* the LLM is called with the transcript after the STT call has returned, and
\* the commit follows the generation; the TTS call starts after the commit and
\* after Agent.invoke has returned, and its text is the assistant text that
\* was committed. An empty transcript goes the same way: the LLM is called and
\* the exchange is committed with a user message of empty content.
C22_StageOrder ==
    \A t \in {1} :
        LET f == resp[t]
            g == sp[t]
            u == turn[t]
        IN  /\ f.pc = "stt" =>
                   /\ g.op = "speech_to_text"
                   /\ f.committed = <<>>
                   /\ messages = f.before
            /\ f.pc = "invoke" =>
                   /\ g.op = "speech_to_text" /\ g.pc = "returned"
                   /\ g.result \in {"", "text"}
                   /\ f.transcript = "" <=> g.result = ""
                   /\ u.input_text = f.transcript
                   /\ u.context[Len(u.context)] = UserMessage(f.transcript)
                   /\ u.pc \in {"primary", "fallback", "generated"} =>
                          f.committed = <<>> /\ messages = f.before
                   /\ u.pc \in {"generated", "return", "returned"} => u.calls # <<>>
                   /\ u.pc \in {"return", "returned"} =>
                          f.committed = << <<f.transcript, u.gen.text>> >>
            /\ (f.stage = "tts" /\ f.pc \in {"tts", "done", "raised"}) =>
                   /\ g.op = "text_to_speech"
                   /\ u.pc = "returned"
                   /\ Len(f.committed) = 1
                   /\ f.committed[1][1] = f.transcript
                   /\ g.arg = f.committed[1][2]
                   /\ LastN(messages, 2) = Flatten(f.committed)

\* C22 witness: a turn whose transcript was empty ran to its end: the LLM was
\* called, the exchange with the empty user message is in the history, and the
\* TTS call, made with the committed reply, gave its chunks.
C22_Witness ==
    LET f == resp[1] IN
    /\ f.pc = "done" /\ f.audio = "speech" /\ f.transcript = ""
    /\ turn[1].calls # <<>>
    /\ f.committed = << <<"", f.response_text>> >>
    /\ messages[Len(messages) - 1] = UserMessage("")
    /\ sp[1].arg = f.response_text /\ sp[1].result = "chunks"

----------------------------------------------------------------------------
(* generate_response once more, under SpecAgent *)

\* C23 (the docstring of generate_response): when the primary and
\* every fallback have failed, generate_response raises an exception.
C23_TotalFailureRaises ==
    \A t \in {1} :
        (Generated(turn[t]) /\ AllAttemptsFailed(turn[t])) => turn[t].gen.raised


----------------------------------------------------------------------------
(* The zero capacity, under SpecHistory *)

\* C24: with the capacity P = 0 the history has at most 2P + 1 = 1 message
\* after every add_exchange, and the list get_messages returns never holds two
\* system messages.
C24_ZeroCapacityBound ==
    max_history_pairs = 0 =>
        /\ current_length <= 1
        /\ LET m == get_messages(messages, system_prompt)[2]
           IN  Cardinality({i \in 1..Len(m) : m[i].role = "system"}) <= 1

----------------------------------------------------------------------------
(* The requests of generate_response, under SpecLLM and SpecAgent *)

\* The provider a model identifier of the model belongs to.
ModelProvider(m) ==
    CASE m = get_model_name("cloud", "ollama") -> "ollama"
      [] m = get_model_name("cloud", "openrouter") -> "openrouter"
      [] m = get_model_name("cloud", "groq") -> "groq"
      [] m = get_model_name("cloud", "gemini") -> "gemini"
      [] OTHER -> "openai"

\* C25: the attempts of one generate_response call have the same messages and
\* the same temperature, and a fallback attempt carries no connection setting
\* chosen for the primary provider: its api_base and api_key are absent or
\* those of the provider of the fallback model.
C25_AttemptsIndependent ==
    \A t \in {1} :
        LET c == turn[t].calls IN
        \A i \in 2..Len(c) :
            /\ c[i].messages = c[1].messages
            /\ c[i].temperature = c[1].temperature
            /\ c[i].api_base \in {Unset, api_base_mapping[ModelProvider(c[i].model)]}
            /\ c[i].api_key \in {Unset, api_key_for[ModelProvider(c[i].model)]}

\* C26: generate_response leaves LLMService.model and
\* LLMService.fallback_models as they are, and every generate_response call,
\* whatever answered the turn before, starts with the primary model and goes
\* on with the fallbacks in their order.
C26_ChainUnchangedByUse ==
    /\ [][model' = model /\ fallback_models' = fallback_models]_vars
    /\ [](\A t \in {1} :
            LET c == turn[t].calls IN
            /\ c # <<>> => c[1].model = get_model_name(llm_mode, llm_provider)
            /\ \A i \in 2..Len(c) :
                   \E j \in 1..Len(fallback_models) :
                       /\ c[i].model = fallback_models[j]
                       /\ Cardinality({k \in 1..j : ~IsBlank(fallback_models[k])}) = i - 1)

\* C26 witness: the first turn was answered by the second fallback model, and
\* in the second turn the primary model has been called first and the first
\* fallback is being called next.
C26_Witness ==
    LET f == turn[1] IN
    /\ Len(fallback_models) = 2
    /\ ~IsBlank(fallback_models[1]) /\ ~IsBlank(fallback_models[2])
    /\ fallback_models[1] # fallback_models[2]
    /\ f.prev_model = fallback_models[2]
    /\ f.pc = "fallback" /\ f.idx = 2
    /\ Len(f.calls) = 2
    /\ f.calls[1].model = model /\ f.calls[2].model = fallback_models[1]

\* C27: the fallback entries that are empty or only whitespace are skipped
\* without an LLM call: one generate_response call makes at most 1 + (number of
\* non-blank fallback entries) calls, none of them with a blank model, and when
\* LLM_FALLBACKS is unset or empty (fallback_models is [""]) a failure of the
\* primary model gives exactly one call and then the apology string.
C27_BlankFallbacksSkipped ==
    \A t \in {1} :
        LET f == turn[t]
            c == f.calls
        IN  /\ Len(c) <= 1 + Cardinality({k \in 1..Len(fallback_models) :
                                             fallback_models[k] \notin {"", " "}})
            /\ \A i \in 1..Len(c) : c[i].model \notin {"", " "}
            /\ (fallback_models = <<"">> /\ Generated(f) /\ ~c[1].ok) =>
                   /\ Len(c) = 1
                   /\ f.gen = [raised |-> FALSE, text |-> LLMApology]

\* C27 witness: the fallbacks are a whitespace entry and a model; the primary
\* and that model have failed, two calls in all, and the call has ended.
C27_Witness ==
    LET f == turn[1] IN
    /\ fallback_models[1] = " "
    /\ Len(fallback_models) = 2 /\ ~IsBlank(fallback_models[2])
    /\ Generated(f)
    /\ Len(f.calls) = 2
    /\ AllAttemptsFailed(f)

----------------------------------------------------------------------------
(* Selection and initialization of the TTS provider, under SpecSpeech *)

\* C28: set_tts_provider(name) with a registered name makes name the active
\* TTS provider before it initializes it, and nothing undoes that: when the
\* provider's initialize() raises, the call ends with the exception, the active
\* provider is name with initialized False (the provider active before is
\* active no more), and a text_to_speech call that follows looks up name and
\* invokes its initialize() again.
C28_FailedSelectionNotRolledBack ==
    \A t \in {1} :
        LET g == sp[t]
            active == <<"tts", g.pre.tts_provider>>
        IN  /\ (g.op = "set_tts_provider" /\ Lower(g.arg) \in TTS_Registered) =>
                   /\ tts_provider = Lower(g.arg)
                   /\ g.raisedBy = "init" =>
                          /\ g.result = Raised
                          /\ g.provider = <<"tts", Lower(g.arg)>>
                          /\ ~initialized[g.provider]
                          /\ g.pre.tts_provider # Lower(g.arg) =>
                                 tts_provider # g.pre.tts_provider
            /\ (/\ g.op = "text_to_speech" /\ g.arg \notin {"", NoneText}
                /\ g.pc \in {"init", "setflag", "use", "returned"}
                /\ ~g.pre.initialized[active]) =>
                   /\ g.provider = active
                   /\ g.pc = "init" \/ initCalls[active] = g.pre.initCalls[active] + 1

\* C28 witness: the service was constructed with elevenlabs;
\* set_tts_provider("Kokoro") ended with the exception of kokoro's initialize();
\* the text_to_speech call that followed is about to initialize kokoro again.
C28_Witness ==
    LET g == sp[1] IN
    /\ ctor_tts_provider(ctor_tts_name) = "elevenlabs"
    /\ tts_provider = "kokoro"
    /\ g.op = "text_to_speech" /\ g.pc = "init"
    /\ g.provider = <<"tts", "kokoro">>
    /\ initCalls[<<"tts", "kokoro">>] = 1
    /\ ~initialized[<<"tts", "kokoro">>]
    /\ initialized[<<"tts", "elevenlabs">>]

----------------------------------------------------------------------------
(* text_to_speech as a lazy sequence, under SpecTtsLazy *)

\* C29: text_to_speech is a lazy sequence: a sequence not yet consumed has
\* looked up no provider; the provider of the sequence is the one active when
\* the first consumption looks it up, whatever was active when text_to_speech
\* was called; and every chunk of the sequence comes from that provider,
\* whatever is selected while the sequence is consumed.
C29_LazyProviderLookup ==
    \A t \in {1} :
        LET g == sp[t] IN
        g.op = "text_to_speech" =>
            /\ g.pc = "created" => g.provider = <<>> /\ g.chunks = <<>>
            /\ g.provider # <<>> => g.provider = <<"tts", g.at_lookup>>
            /\ \A i \in 1..Len(g.chunks) : g.chunks[i] = g.at_lookup

\* C29 witness: text_to_speech was called with elevenlabs active, kokoro was
\* selected before the first consumption, and elevenlabs was selected again
\* after the first chunk: both chunks come from kokoro.
C29_Witness ==
    LET g == sp[1] IN
    /\ g.op = "text_to_speech" /\ g.pc = "returned" /\ g.result = "chunks"
    /\ g.pre.tts_provider = "elevenlabs"
    /\ g.at_lookup = "kokoro"
    /\ g.chunks = <<"kokoro", "kokoro">>
    /\ tts_provider = "elevenlabs"
    /\ sp[2].op = "set_tts_provider" /\ sp[2].arg = "elevenlabs"

----------------------------------------------------------------------------
(* The primary request for every LLM_MODE and LLM_PROVIDER, under SpecLLM *)

\* C30: for every LLM_MODE and LLM_PROVIDER the primary request is consistent:
\* its api_base and api_key are those of the provider of its model, the model
\* being the one _get_model_name computes; in local mode the request has the
\* "ollama/" model and the Ollama api_base, whatever LLM_PROVIDER is.
C30_PrimaryRequestConsistent ==
    \A t \in {1} :
        LET c == turn[t].calls IN
        c # <<>> =>
            /\ c[1].model = get_model_name(llm_mode, llm_provider)
            /\ c[1].api_base = api_base_mapping[ModelProvider(c[1].model)]
            /\ c[1].api_key = api_key_for[ModelProvider(c[1].model)]
            /\ llm_mode = "local" =>
                   /\ c[1].model = "ollama/" \o model_mapping["ollama"]
                   /\ c[1].api_base = api_base_mapping["ollama"]

============================================================================
